---- MODULE Spec2Model ----
(***************************************************************************)
(* Model of iapyx's MultiController                                        *)
(* (src/iapyx/src/load/multi_controller.rs): a pool of wallets driven      *)
(* against a remote voting backend.                                        *)
(*                                                                         *)
(* The controller is single threaded: every public method is one atomic    *)
(* action.  The backend is a separate party: it accepts fragments into a   *)
(* queue of in-flight fragments and applies them later (BackendApply), and *)
(* accounts become known to it when they are funded (BackendFund).         *)
(*                                                                         *)
(* An unwrap() that fails is a panic: the process ends (phase "panicked"). *)
(* The account counter is a u32; the counters reached within the bounds    *)
(* stay far below 2^32, so no wrap is modelled.                            *)
(***************************************************************************)
EXTENDS Integers, Sequences, FiniteSets, TLC

\* ------------------------------------------------------------------ bounds
NumAccounts == 2      \* distinct accounts (mnemonics) the driver can use
MaxWallets  == 2      \* largest pool built by a constructor
MaxBatch    == 2      \* longest votes_data handed to votes_batch
NumProposals == 2     \* proposals the backend offers
MaxOps      == 2      \* vote / votes_batch / refresh_wallet / is_converted calls
MaxConfirms == 1      \* confirm_transaction / confirm_all_transactions calls
MaxValue    == 1      \* largest balance the backend reports

Accounts  == 1..NumAccounts
Proposals == 1..NumProposals
Choices   == {"yes"}
\* the phrases 1..NumAccounts are well formed, phrase k recovering account k;
\* one further phrase is malformed: Wallet::recover rejects it
BadMnemonic == NumAccounts + 1
Mnemonics == Accounts \cup {BadMnemonic}

NoState == [value |-> 0, counter |-> 0, present |-> FALSE]
NoId    == <<>>

VARIABLES
    phase,      \* "new" | "ready" | "failed" | "panicked"
    wallets,    \* MultiController.wallets : Seq of Wallet
    backend,    \* remote account state per account
    inflight,   \* fragments accepted by the backend and not yet applied
    nops,       \* vote / votes_batch / refresh_wallet / is_converted calls so far
    nconf,      \* confirm_transaction / confirm_all_transactions calls so far
    last        \* observation of the last controller operation

vars == <<phase, wallets, backend, inflight, nops, nconf, last>>

\* ------------------------------------------------------------------ helpers
Range(s) == {s[i] : i \in DOMAIN s}

SeqsUpTo(S, n) == UNION {[1..k -> S] : k \in 0..n}

Reverse(s) == [i \in 1..Len(s) |-> s[Len(s) + 1 - i]]

\* ------------------------------------------------------------------- Wallet
\* crate::Wallet: account id, cached (balance, counter), fragments it built
\* and still tracks as unconfirmed.
NewWallet(a) == [account |-> a, value |-> 0, counter |-> 0, pending |-> {}]

\* Wallet::set_state(value, counter): overwrite the cached pair
set_state(w, value, counter) == [w EXCEPT !.value = value, !.counter = counter]

\* the signed vote transaction a wallet produces from its cached state
VoteTx(w, p, c) ==
    [account |-> w.account, counter |-> w.counter, proposal |-> p, choice |-> c]

\* FragmentId: derived from the content of the fragment
FragmentId(tx) == <<tx.account, tx.counter, tx.proposal, tx.choice>>

\* Wallet::vote on success: builds the transaction from the cached state and
\* tracks its id as pending; the cached (balance, counter) is not changed
WalletVote(w, p, c) ==
    [wallet |-> [w EXCEPT !.pending = @ \cup {FragmentId(VoteTx(w, p, c))}],
     tx     |-> VoteTx(w, p, c)]

\* Wallet::confirm_transaction(id): id is no longer pending in this wallet
WalletConfirm(w, id) == [w EXCEPT !.pending = @ \ {id}]

\* Wallet::confirm_all_transactions()
WalletConfirmAll(w) == [w EXCEPT !.pending = {}]

\* ------------------------------------------------------------------ backend
\* WalletBackend::account_state(id) of an account the backend knows
AccountState(a) == backend[a]

\* WalletBackend::account_exists(id)
AccountExists(a) == backend[a].present

\* backend side of send_fragment / send_fragments_at_once: the fragments
\* join the queue in the order of the list
Enqueue(q, txs) == q \o txs


\* ------------------------------------------------------- observation record
\* what the last controller operation did: its arguments, the backend calls
\* it issued, the counters its wallet was set to when signing, its result
Obs(op) ==
    [op        |-> op,        \* name of the operation
     index     |-> 0,         \* wallet_index argument
     outcome   |-> "ok",      \* "ok" | "err" | "panic"
     error     |-> "",        \* MultiControllerError variant when "err"
     fetched   |-> NoState,   \* the account_state the backend returned
     fetches   |-> 0,         \* account_state calls issued
     data      |-> <<>>,      \* votes_data the build consumed
     signed    |-> <<>>,      \* <<input position, counter>> in signing order
     sends     |-> 0,         \* send_fragment / send_fragments_at_once calls
     sent      |-> <<>>,      \* the list handed to the backend
     id        |-> NoId,      \* fragment_id argument
     ret       |-> FALSE,     \* the bool is_converted returned
     callFailed |-> FALSE]    \* is_converted: the account_exists call failed

\* ------------------------------------------------------------- constructors
\* mutant: the wallets are collected back to front
RecoveredWallets_Reversed(mnemonics) ==
    [k \in 1..Len(mnemonics) |-> NewWallet(mnemonics[Len(mnemonics) + 1 - k])]

\* recover (lines 52-55): one wallet per phrase, in input order
RecoveredWallets(mnemonics) == [k \in 1..Len(mnemonics) |-> NewWallet(mnemonics[k])]

\* recover (lines 44-61); last.data holds the phrases passed
Recover(mnemonics, settingsOk) ==
    /\ phase = "new"
    /\ LET o == [Obs("recover") EXCEPT !.data = mnemonics]
       IN
       IF ~settingsOk
       THEN \* line 51: backend.settings()? returns the backend error
            /\ phase' = "failed"
            /\ wallets' = <<>>
            /\ last' = [o EXCEPT !.outcome = "err", !.error = "BackendError"]
       ELSE IF BadMnemonic \in Range(mnemonics)
       THEN \* line 54: unwrap of the error of Wallet::recover
            /\ phase' = "panicked"
            /\ wallets' = <<>>
            /\ last' = [o EXCEPT !.outcome = "panic"]
       ELSE /\ phase' = "ready"
            /\ wallets' = RecoveredWallets(mnemonics)
            /\ last' = o
    /\ UNCHANGED <<backend, inflight, nops, nconf>>

\* the QR sources 1..NumAccounts hold the secret of account k; one further
\* source cannot be decoded
BadQr == NumAccounts + 1

QrSources == Accounts \cup {BadQr}

\* PinReadMode: how the reader obtains the PIN
PinModes == {"interactive", "forced"}

\* QrReader::read_qrs (called at line 74): the secrets of the sources, in
\* input order; reading fails as a whole when a source cannot be decoded or
\* a required PIN cannot be obtained or is wrong (pinOk = FALSE)
ReadQrs(qrs, pinOk) ==
    IF qrs # <<>> /\ (~pinOk \/ BadQr \in Range(qrs))
    THEN [ok |-> FALSE, secrets |-> <<>>]
    ELSE [ok |-> TRUE, secrets |-> qrs]

\* mutant: the wallets are collected back to front
QrWallets_Reversed(secrets) ==
    [k \in 1..Len(secrets) |-> NewWallet(secrets[Len(secrets) + 1 - k])]

\* lines 75-78: one wallet per secret, in the order of the secrets
QrWallets(secrets) == [k \in 1..Len(secrets) |-> NewWallet(secrets[k])]

\* recover_from_qrs (lines 63-85); last.data holds the QR sources passed.
\* read_qrs hands back the secrets themselves, not a Result: a failed read
\* cannot be returned as Err by line 74 and ends the call fatally
RecoverFromQrs(qrs, pin_mode, pinOk, settingsOk) ==
    /\ phase = "new"
    /\ LET o == [Obs("recover_from_qrs") EXCEPT !.data = qrs]
           r == ReadQrs(qrs, pinOk)
       IN
       IF ~settingsOk
       THEN \* line 70
            /\ phase' = "failed"
            /\ wallets' = <<>>
            /\ last' = [o EXCEPT !.outcome = "err", !.error = "BackendError"]
       ELSE IF ~r.ok
       THEN /\ phase' = "panicked"
            /\ wallets' = <<>>
            /\ last' = [o EXCEPT !.outcome = "panic"]
       ELSE /\ phase' = "ready"
            /\ wallets' = QrWallets(r.secrets)
            /\ last' = o
    /\ UNCHANGED <<backend, inflight, nops, nconf>>


\* the bounds of the model on the number of calls
Counted ==
    /\ nops < MaxOps
    /\ nops' = nops + 1
    /\ nconf' = nconf

CountedConfirm ==
    /\ nconf < MaxConfirms
    /\ nconf' = nconf + 1
    /\ nops' = nops

\* ---------------------------------------------------------- pool accessors
\* self.wallets.get_mut(wallet_index): wallet_index is 0-based
InRange(ws, wallet_index) == wallet_index < Len(ws)

GetMut(ws, wallet_index) == ws[wallet_index + 1]

\* mutant: the wallet is always stored in the first slot of the pool
Put_First(ws, wallet_index, w) == [ws EXCEPT ![1] = w]

\* the &mut Wallet of get_mut written through (lines 125-126, 138-149, 175-178)
Put(ws, wallet_index, w) == [ws EXCEPT ![wallet_index + 1] = w]

\* wallet_count (lines 182-184)
wallet_count == Len(wallets)

\* --------------------------------------------------------------- votes_batch
\* mutant: the batch starts one past the fetched counter
InitialCounter_OffByOne(account_state) == account_state.counter + 1

\* let mut counter = account_state.counter();  (line 141)
InitialCounter(account_state) == account_state.counter

\* mutant: the increment of line 151 is missing
NextCounter_NoIncrement(counter) == counter

\* counter += 1;  (line 151).  The counter is a u32; the counters reached here
\* stay below MaxOps * MaxBatch, far from the wrap at 2^32
NextCounter(counter) == counter + 1

\* votes_data with the input position (1-based) of every pair
Indexed(votes_data) == [k \in 1..Len(votes_data) |-> <<k, votes_data[k]>>]

\* mutant: the .rev() of line 154 is missing, the closure runs front to back
RevNext_Forward(rest) ==
    [item |-> rest[1], rest |-> SubSeq(rest, 2, Len(rest))]

\* .map(..).rev() (lines 145-154): Rev::next is the map's next_back, so the
\* closure runs on the last remaining input pair
RevNext(rest) ==
    [item |-> rest[Len(rest)], rest |-> SubSeq(rest, 1, Len(rest) - 1)]

\* the closure of lines 145-153 driven by .rev().collect() (lines 154-155).
\* acc is what collect has gathered so far; failAt = n > 0 makes the n-th
\* wallet.vote return Err, which the unwrap of line 149 turns into a panic
RECURSIVE CollectTxs(_, _, _, _, _, _)
CollectTxs(w, account_state, counter, rest, acc, failAt) ==
    IF rest = <<>>
    THEN [wallet |-> w, txs |-> acc.txs, signed |-> acc.signed, ok |-> TRUE]
    ELSE LET nx  == RevNext(rest)
             pos == nx.item[1]
             p   == nx.item[2][1]
             c   == nx.item[2][2]
             w1  == set_state(w, account_state.value, counter)
             sg  == Append(acc.signed, <<pos, counter>>)
         IN  IF Len(acc.txs) + 1 = failAt
             THEN [wallet |-> w1, txs |-> acc.txs, signed |-> sg, ok |-> FALSE]
             ELSE LET r == WalletVote(w1, p, c)
                  IN  CollectTxs(r.wallet, account_state, NextCounter(counter),
                                 nx.rest,
                                 [txs |-> Append(acc.txs, r.tx), signed |-> sg],
                                 failAt)

\* mutant: the map is run to completion in input order and its output is
\* reversed afterwards
BuildTxs_EagerThenRev(w, account_state, votes_data, failAt) ==
    LET b == CollectTxs(w, account_state, InitialCounter(account_state),
                        Reverse(Indexed(votes_data)),
                        [txs |-> <<>>, signed |-> <<>>], failAt)
    IN  [b EXCEPT !.txs = Reverse(b.txs)]

\* mutant: a signing error is dropped and the payloads built so far are
\* collected
BuildTxs_IgnoresFailure(w, account_state, votes_data, failAt) ==
    LET b == CollectTxs(w, account_state, InitialCounter(account_state),
                        Indexed(votes_data), [txs |-> <<>>, signed |-> <<>>],
                        failAt)
    IN  [b EXCEPT !.ok = TRUE]

\* lines 141-155
BuildTxs(w, account_state, votes_data, failAt) ==
    CollectTxs(w, account_state, InitialCounter(account_state),
               Indexed(votes_data), [txs |-> <<>>, signed |-> <<>>], failAt)

\* votes_batch (lines 132-160)
VotesBatch(wallet_index, use_v1, votes_data, fetchOk, failAt, sendOk) ==
    /\ phase = "ready"
    /\ Counted
    /\ LET o == [Obs("votes_batch") EXCEPT !.index = wallet_index]
       IN
       IF ~InRange(wallets, wallet_index)
       THEN \* line 138: unwrap of None
            /\ phase' = "panicked"
            /\ last' = [o EXCEPT !.outcome = "panic"]
            /\ UNCHANGED <<wallets, backend, inflight>>
       ELSE
       LET w == GetMut(wallets, wallet_index) IN
       IF ~(fetchOk /\ AccountExists(w.account))
       THEN \* line 139: account_state(..)? returns the backend error
            /\ last' = [o EXCEPT !.outcome = "err", !.error = "BackendError",
                                 !.fetches = 1]
            /\ UNCHANGED <<phase, wallets, backend, inflight>>
       ELSE
       LET account_state == AccountState(w.account)
           b  == BuildTxs(w, account_state, votes_data, failAt)
           o1 == [o EXCEPT !.fetched = account_state, !.fetches = 1,
                           !.data = votes_data, !.signed = b.signed]
       IN
       IF ~b.ok
       THEN \* line 149: unwrap of a signing error
            /\ phase' = "panicked"
            /\ wallets' = Put(wallets, wallet_index, b.wallet)
            /\ last' = [o1 EXCEPT !.outcome = "panic"]
            /\ UNCHANGED <<backend, inflight>>
       ELSE
            \* lines 157-159
            /\ wallets' = Put(wallets, wallet_index, b.wallet)
            /\ IF sendOk
               THEN /\ inflight' = Enqueue(inflight, b.txs)
                    /\ last' = [o1 EXCEPT !.sends = 1, !.sent = b.txs]
               ELSE /\ inflight' = inflight
                    /\ last' = [o1 EXCEPT !.sends = 1, !.sent = b.txs,
                                          !.outcome = "err",
                                          !.error = "BackendError"]
            /\ UNCHANGED <<phase, backend>>

\* ---------------------------------------------------------------------- vote
\* mutant: vote refreshes the wallet from the backend before signing, the
\* way votes_batch does
Vote_RefreshesFirst(wallet_index, proposal, choice, signOk, sendOk) ==
    /\ phase = "ready"
    /\ Counted
    /\ LET o == [Obs("vote") EXCEPT !.index = wallet_index]
       IN
       IF ~InRange(wallets, wallet_index)
       THEN /\ phase' = "panicked"
            /\ last' = [o EXCEPT !.outcome = "panic"]
            /\ UNCHANGED <<wallets, backend, inflight>>
       ELSE
       LET w0 == GetMut(wallets, wallet_index) IN
       IF ~AccountExists(w0.account)
       THEN /\ last' = [o EXCEPT !.outcome = "err", !.error = "BackendError",
                                 !.fetches = 1]
            /\ UNCHANGED <<phase, wallets, backend, inflight>>
       ELSE
       LET st == AccountState(w0.account)
           w  == set_state(w0, st.value, st.counter)
           of == [o EXCEPT !.fetched = st, !.fetches = 1]
       IN
       IF ~signOk
       THEN /\ last' = [of EXCEPT !.outcome = "err", !.error = "WalletError"]
            /\ wallets' = Put(wallets, wallet_index, w)
            /\ UNCHANGED <<phase, backend, inflight>>
       ELSE
       LET r  == WalletVote(w, proposal, choice)
           o1 == [of EXCEPT !.data = <<<<proposal, choice>>>>,
                            !.signed = <<<<1, w.counter>>>>, !.sends = 1,
                            !.sent = <<r.tx>>]
       IN   /\ wallets' = Put(wallets, wallet_index, r.wallet)
            /\ IF sendOk
               THEN /\ inflight' = Enqueue(inflight, <<r.tx>>)
                    /\ last' = o1
               ELSE /\ inflight' = inflight
                    /\ last' = [o1 EXCEPT !.outcome = "err",
                                          !.error = "BackendError"]
            /\ UNCHANGED <<phase, backend>>

\* vote (lines 119-130)
Vote(wallet_index, proposal, choice, signOk, sendOk) ==
    /\ phase = "ready"
    /\ Counted
    /\ LET o == [Obs("vote") EXCEPT !.index = wallet_index]
       IN
       IF ~InRange(wallets, wallet_index)
       THEN /\ phase' = "panicked"
            /\ last' = [o EXCEPT !.outcome = "panic"]
            /\ UNCHANGED <<wallets, backend, inflight>>
       ELSE
       LET w == GetMut(wallets, wallet_index) IN
       IF ~signOk
       THEN \* line 126: wallet.vote(..)? returns the wallet error
            /\ last' = [o EXCEPT !.outcome = "err", !.error = "WalletError"]
            /\ UNCHANGED <<phase, wallets, backend, inflight>>
       ELSE
       LET r  == WalletVote(w, proposal, choice)
           o1 == [o EXCEPT !.data = <<<<proposal, choice>>>>,
                           !.signed = <<<<1, w.counter>>>>, !.sends = 1,
                           !.sent = <<r.tx>>]
       IN   /\ wallets' = Put(wallets, wallet_index, r.wallet)
            /\ IF sendOk
               THEN /\ inflight' = Enqueue(inflight, <<r.tx>>)
                    /\ last' = o1
               ELSE /\ inflight' = inflight
                    /\ last' = [o1 EXCEPT !.outcome = "err",
                                          !.error = "BackendError"]
            /\ UNCHANGED <<phase, backend>>

\* ------------------------------------------------------------- confirmation
\* mutant: the loop stops one wallet short
confirm_all_transactions_SkipsLast(ws) ==
    [k \in 1..Len(ws) |-> IF k < Len(ws) THEN WalletConfirmAll(ws[k]) ELSE ws[k]]

\* the loop of confirm_all_transactions (lines 163-165)
confirm_all_transactions(ws) == [k \in 1..Len(ws) |-> WalletConfirmAll(ws[k])]

\* mutant: the loop stops at the first wallet that tracks the fragment
confirm_transaction_FirstOnly(ws, fragment_id) ==
    LET hits == {k \in 1..Len(ws) : fragment_id \in ws[k].pending}
    IN  IF hits = {} THEN ws
        ELSE LET first == CHOOSE k \in hits : \A h \in hits : k <= h
             IN  [ws EXCEPT ![first] = WalletConfirm(ws[first], fragment_id)]

\* mutant: the loop calls the wallet's confirm_all_transactions
confirm_transaction_ConfirmsAll(ws, fragment_id) ==
    [k \in 1..Len(ws) |-> WalletConfirmAll(ws[k])]

\* the loop of confirm_transaction (lines 169-171)
confirm_transaction(ws, fragment_id) ==
    [k \in 1..Len(ws) |-> WalletConfirm(ws[k], fragment_id)]

\* every fragment id some wallet of the pool tracks as unconfirmed
Tracked(ws) == UNION {ws[k].pending : k \in 1..Len(ws)}

\* an id no wallet ever built
UnknownId == <<0, 0, 0, "none">>

ConfirmAllTransactions ==
    /\ phase = "ready"
    /\ CountedConfirm
    /\ wallets' = confirm_all_transactions(wallets)
    /\ last' = Obs("confirm_all_transactions")
    /\ UNCHANGED <<phase, backend, inflight>>

ConfirmTransaction(fragment_id) ==
    /\ phase = "ready"
    /\ CountedConfirm
    /\ wallets' = confirm_transaction(wallets, fragment_id)
    /\ last' = [Obs("confirm_transaction") EXCEPT !.id = fragment_id]
    /\ UNCHANGED <<phase, backend, inflight>>

\* ----------------------------------------------------------- refresh_wallet
\* mutant: only the balance is refreshed, the cached counter is kept
Refreshed_KeepsCounter(w, account_state) ==
    set_state(w, account_state.value, w.counter)

\* lines 177-178
Refreshed(w, account_state) ==
    set_state(w, account_state.value, account_state.counter)

\* mutant: a failed account_state fetch is swallowed and the call returns Ok
RefreshWallet_SwallowsError(wallet_index, fetchOk) ==
    /\ phase = "ready"
    /\ Counted
    /\ LET o == [Obs("refresh_wallet") EXCEPT !.index = wallet_index]
       IN
       IF ~InRange(wallets, wallet_index)
       THEN /\ phase' = "panicked"
            /\ last' = [o EXCEPT !.outcome = "panic"]
            /\ UNCHANGED <<wallets, backend, inflight>>
       ELSE
       LET w == GetMut(wallets, wallet_index) IN
       IF ~(fetchOk /\ AccountExists(w.account))
       THEN /\ last' = [o EXCEPT !.fetches = 1]
            /\ UNCHANGED <<phase, wallets, backend, inflight>>
       ELSE /\ wallets' = Put(wallets, wallet_index,
                              Refreshed(w, AccountState(w.account)))
            /\ last' = [o EXCEPT !.fetched = AccountState(w.account),
                                 !.fetches = 1]
            /\ UNCHANGED <<phase, backend, inflight>>

\* refresh_wallet (lines 174-180)
RefreshWallet(wallet_index, fetchOk) ==
    /\ phase = "ready"
    /\ Counted
    /\ LET o == [Obs("refresh_wallet") EXCEPT !.index = wallet_index]
       IN
       IF ~InRange(wallets, wallet_index)
       THEN /\ phase' = "panicked"
            /\ last' = [o EXCEPT !.outcome = "panic"]
            /\ UNCHANGED <<wallets, backend, inflight>>
       ELSE
       LET w == GetMut(wallets, wallet_index) IN
       IF ~(fetchOk /\ AccountExists(w.account))
       THEN /\ last' = [o EXCEPT !.outcome = "err", !.error = "BackendError",
                                 !.fetches = 1]
            /\ UNCHANGED <<phase, wallets, backend, inflight>>
       ELSE /\ wallets' = Put(wallets, wallet_index,
                              Refreshed(w, AccountState(w.account)))
            /\ last' = [o EXCEPT !.fetched = AccountState(w.account),
                                 !.fetches = 1]
            /\ UNCHANGED <<phase, backend, inflight>>

\* ------------------------------------------------------------- is_converted
\* mutant: an account the backend does not know is reported as an error, the
\* way account_state reports it
IsConverted_AbsenceIsError(wallet_index, callOk) ==
    /\ phase = "ready"
    /\ Counted
    /\ LET o == [Obs("is_converted") EXCEPT !.index = wallet_index]
       IN
       IF ~InRange(wallets, wallet_index)
       THEN /\ phase' = "panicked"
            /\ last' = [o EXCEPT !.outcome = "panic"]
       ELSE IF ~callOk
       THEN /\ phase' = phase
            /\ last' = [o EXCEPT !.outcome = "err", !.error = "BackendError",
                                 !.callFailed = TRUE]
       ELSE IF ~AccountExists(GetMut(wallets, wallet_index).account)
       THEN /\ phase' = phase
            /\ last' = [o EXCEPT !.outcome = "err", !.error = "BackendError"]
       ELSE /\ phase' = phase
            /\ last' = [o EXCEPT !.ret = TRUE]
    /\ UNCHANGED <<wallets, backend, inflight>>

\* mutant: an out-of-range index is returned as an error, after the backend
\* was asked
IsConverted_IndexIsErr(wallet_index, callOk) ==
    /\ phase = "ready"
    /\ Counted
    /\ LET o == [Obs("is_converted") EXCEPT !.index = wallet_index]
       IN
       IF ~InRange(wallets, wallet_index) \/ ~callOk
       THEN /\ phase' = phase
            /\ last' = [o EXCEPT !.outcome = "err", !.error = "ControllerError",
                                 !.callFailed = ~callOk]
       ELSE /\ phase' = phase
            /\ last' = [o EXCEPT !.ret =
                            AccountExists(GetMut(wallets, wallet_index).account)]
    /\ UNCHANGED <<wallets, backend, inflight>>

\* is_converted (lines 186-189)
IsConverted(wallet_index, callOk) ==
    /\ phase = "ready"
    /\ Counted
    /\ LET o == [Obs("is_converted") EXCEPT !.index = wallet_index]
       IN
       IF ~InRange(wallets, wallet_index)
       THEN /\ phase' = "panicked"
            /\ last' = [o EXCEPT !.outcome = "panic"]
       ELSE IF ~callOk
       THEN /\ phase' = phase
            /\ last' = [o EXCEPT !.outcome = "err", !.error = "BackendError",
                                 !.callFailed = TRUE]
       ELSE /\ phase' = phase
            /\ last' = [o EXCEPT !.ret =
                            AccountExists(GetMut(wallets, wallet_index).account)]
    /\ UNCHANGED <<wallets, backend, inflight>>

\* ------------------------------------------------------ the backend's steps
\* an account becomes known to the backend, or its balance changes
BackendFund(a, v) ==
    /\ phase \in {"new", "ready"}
    /\ ~(backend[a].present /\ backend[a].value = v)
    /\ backend' = [backend EXCEPT ![a].present = TRUE, ![a].value = v]
    /\ UNCHANGED <<phase, wallets, inflight, nops, nconf, last>>

\* the backend processes the oldest in-flight fragment: it is applied when
\* its counter is the account's current counter, and rejected otherwise
BackendApply ==
    /\ phase = "ready"
    /\ inflight # <<>>
    /\ LET tx == Head(inflight)
           st == backend[tx.account]
       IN  backend' = IF st.present /\ st.counter = tx.counter
                      THEN [backend EXCEPT ![tx.account].counter = @ + 1]
                      ELSE backend
    /\ inflight' = Tail(inflight)
    /\ UNCHANGED <<phase, wallets, nops, nconf, last>>

\* ------------------------------------------------------------ specification
Init ==
    /\ phase = "new"
    /\ wallets = <<>>
    /\ backend = [a \in Accounts |-> NoState]
    /\ inflight = <<>>
    /\ nops = 0
    /\ nconf = 0
    /\ last = Obs("none")

VotePairs == Proposals \X Choices

Next ==
    \/ \E ms \in SeqsUpTo(Mnemonics, MaxWallets), ok \in BOOLEAN : Recover(ms, ok)
    \/ \E qrs \in SeqsUpTo(QrSources, MaxWallets), pin_mode \in PinModes,
          pinOk \in BOOLEAN, ok \in BOOLEAN :
          RecoverFromQrs(qrs, pin_mode, pinOk, ok)
    \/ \E i \in 0..MaxWallets, p \in Proposals, c \in Choices,
          signOk \in BOOLEAN, sendOk \in BOOLEAN : Vote(i, p, c, signOk, sendOk)
    \/ \E i \in 0..MaxWallets, use_v1 \in BOOLEAN,
          data \in SeqsUpTo(VotePairs, MaxBatch),
          fetchOk \in BOOLEAN, sendOk \in BOOLEAN :
          \E failAt \in 0..Len(data) :
              VotesBatch(i, use_v1, data, fetchOk, failAt, sendOk)
    \/ ConfirmAllTransactions
    \/ \E id \in Tracked(wallets) \cup {UnknownId} : ConfirmTransaction(id)
    \/ \E i \in 0..MaxWallets, ok \in BOOLEAN : RefreshWallet(i, ok)
    \/ \E i \in 0..MaxWallets, ok \in BOOLEAN : IsConverted(i, ok)
    \/ \E a \in Accounts, v \in 1..MaxValue : BackendFund(a, v)
    \/ BackendApply

Spec == Init /\ [][Next]_vars


\* ================================================================== claims
\* the cached (balance, counter) pair of a wallet
Cache(w) == <<w.value, w.counter>>

\* the last operation was a votes_batch whose build completed, so that the
\* list of transactions was handed to send_fragments_at_once
BatchBuilt == last.op = "votes_batch" /\ last.sends = 1

\* the counters of the transactions handed to the backend, in list order
SentCounters == [k \in 1..Len(last.sent) |-> last.sent[k].counter]

\* C1: for a votes_batch whose build completes, with N pairs and c the counter
\* of the fetched account state, the counters the wallet is set to when
\* signing are exactly c, c+1, ..., c+N-1, each used once.
C1_CountersContiguous ==
    BatchBuilt =>
        LET N == Len(last.data)
            c == last.fetched.counter
        IN  /\ Len(last.signed) = N
            /\ \A v \in c..(c + N - 1) :
                   Cardinality({k \in 1..N : last.signed[k][2] = v}) = 1

C1_Witness ==
    /\ BatchBuilt
    /\ Len(last.data) = MaxBatch
    /\ last.fetched.counter >= 1

\* C2: the k-th transaction of the list handed to send_fragments_at_once was
\* signed with counter (initial remote counter) + (k-1).
C2_SubmissionOrderCounters ==
    BatchBuilt =>
        /\ Len(last.sent) = Len(last.data)
        /\ \A k \in 1..Len(last.sent) :
               last.sent[k].counter = last.fetched.counter + (k - 1)

C2_Witness ==
    /\ BatchBuilt
    /\ Len(last.sent) >= 2
    /\ last.sent[2].counter = last.fetched.counter + 1

\* C3 as stated: the list handed to the backend carries the counters in
\* descending order c+N-1, ..., c+1, c, the base counter last.
C3_DescendingAsClaimed ==
    BatchBuilt =>
        LET N == Len(last.data)
        IN  /\ Len(last.sent) = N
            /\ \A i \in 1..N : last.sent[i].counter = last.fetched.counter + N - i

\* C3 amended: the list handed to the backend carries the counters in
\* ascending order: the transaction keyed to the base counter c comes first
\* and every following transaction carries the counter of its predecessor
\* plus one, up to c+N-1.
C3_AscendingCounters ==
    BatchBuilt =>
        LET N == Len(last.data)
        IN  /\ Len(SentCounters) = N
            /\ N >= 1 => /\ SentCounters[1] = last.fetched.counter
                         /\ SentCounters[N] = last.fetched.counter + N - 1
            /\ \A i \in 1..(N - 1) : SentCounters[i + 1] = SentCounters[i] + 1

C3_Witness ==
    /\ BatchBuilt
    /\ Len(last.data) >= 2
    /\ SentCounters[1] = last.fetched.counter
    /\ SentCounters[1] < SentCounters[Len(SentCounters)]

\* C4: the payload at position i (0-based) of the list handed to the backend
\* is the vote for input pair N-1-i: the submitted (proposal, choice) pairs
\* are the input pairs in reverse order.
C4_PairsReversed ==
    BatchBuilt =>
        LET N == Len(last.data)
        IN  /\ Len(last.sent) = N
            /\ \A i \in 0..(N - 1) :
                   <<last.sent[i + 1].proposal, last.sent[i + 1].choice>>
                       = last.data[N - i]

C4_Witness ==
    /\ BatchBuilt
    /\ Len(last.data) >= 2
    /\ last.data[1] # last.data[Len(last.data)]
    /\ last.sent[1].proposal = last.data[Len(last.data)][1]


\* a specification of the batch path alone: a pool is recovered and driven
\* by votes_batch calls only, while the backend funds accounts and applies
\* fragments
NextBatches ==
    \/ \E ms \in SeqsUpTo(Mnemonics, MaxWallets), ok \in BOOLEAN : Recover(ms, ok)
    \/ \E i \in 0..MaxWallets, use_v1 \in BOOLEAN,
          data \in SeqsUpTo(VotePairs, MaxBatch),
          fetchOk \in BOOLEAN, sendOk \in BOOLEAN :
          \E failAt \in 0..Len(data) :
              VotesBatch(i, use_v1, data, fetchOk, failAt, sendOk)
    \/ \E a \in Accounts, v \in 1..MaxValue : BackendFund(a, v)
    \/ BackendApply

SpecBatches == Init /\ [][NextBatches]_vars

\* C5: after any sequence of votes_batch calls on the same wallet, no two
\* submitted and not yet applied fragments of that wallet carry the same
\* counter.  Stated for a pool of one wallet, whose fragments are the
\* fragments of its account.
C5_NoCounterReuseInFlight ==
    Len(wallets) = 1 =>
        \A i, j \in 1..Len(inflight) :
            (i < j /\ inflight[i].account = inflight[j].account)
                => inflight[i].counter # inflight[j].counter

\* C6: after a successful refresh_wallet(i), wallet i's cached (balance,
\* counter) is the snapshot that call fetched, and that snapshot is the
\* backend's state of the account in that very call (one fresh fetch).
RefreshOk == last.op = "refresh_wallet" /\ last.outcome = "ok"

C6_RefreshReflectsBackend ==
    [][(/\ nops' = nops + 1
        /\ last'.op = "refresh_wallet"
        /\ last'.outcome = "ok")
       => LET w  == GetMut(wallets', last'.index)
              st == backend[w.account]
          IN  /\ last'.fetches = 1
              /\ last'.fetched = st
              /\ st.present
              /\ Cache(w) = <<st.value, st.counter>>]_vars

C6_Witness ==
    /\ RefreshOk
    /\ GetMut(wallets, last.index).counter >= 1
    /\ GetMut(wallets, last.index).value >= 1

\* C7: whenever vote, votes_batch or refresh_wallet returns an error, the
\* addressed wallet's cached (balance, counter) is what it was immediately
\* before the call.
C7_FailedOpLeavesCache ==
    [][(/\ nops' = nops + 1
        /\ last'.op \in {"vote", "votes_batch", "refresh_wallet"}
        /\ last'.outcome = "err")
       => Cache(GetMut(wallets', last'.index)) = Cache(GetMut(wallets, last'.index))]_vars

\* C8: confirm_transaction is idempotent: in every reachable state and for
\* every fragment id, applying it twice yields the wallets that applying it
\* once yields.
C8_ConfirmIdempotent ==
    \A id \in Tracked(wallets) \cup {UnknownId} :
        confirm_transaction(confirm_transaction(wallets, id), id)
            = confirm_transaction(wallets, id)

C8_Witness ==
    \E id \in Tracked(wallets) :
        /\ Cardinality({k \in 1..Len(wallets) : id \in wallets[k].pending}) >= 2
        /\ confirm_transaction(wallets, id) # wallets

\* C9: after confirm_all_transactions(), no wallet of the pool has a pending
\* fragment left.
C9_ConfirmAllLeavesNothingPending ==
    last.op = "confirm_all_transactions" =>
        \A k \in 1..Len(wallets) : wallets[k].pending = {}

C9_Witness ==
    /\ last.op = "confirm_all_transactions"
    /\ Len(wallets) >= 2
    /\ Len(inflight) >= 2
    /\ Tracked(wallets) = {}

\* C10: confirm_transaction(id) removes id from the pending set of every
\* wallet that tracked it and changes nothing else: wallets that did not
\* know id, every other pending fragment, the cached states and the pool
\* itself are as before.
C10_ConfirmIsBroadcastWithFrame ==
    [][(nconf' = nconf + 1 /\ last'.op = "confirm_transaction")
       => /\ Len(wallets') = Len(wallets)
          /\ \A k \in 1..Len(wallets) :
                /\ wallets'[k].pending = wallets[k].pending \ {last'.id}
                /\ wallets'[k].account = wallets[k].account
                /\ Cache(wallets'[k]) = Cache(wallets[k])
                /\ (last'.id \notin wallets[k].pending => wallets'[k] = wallets[k])]_vars

C10_Witness ==
    /\ last.op = "confirm_transaction"
    /\ last.id # UnknownId
    /\ last.id \notin Tracked(wallets)
    /\ Tracked(wallets) # {}
    /\ \E k \in 1..Len(wallets) : wallets[k].pending = {}


\* C11: recover with K phrases yields a controller whose wallet_count() is K
\* and whose wallet at index i is the one recovered from phrase i; when a
\* phrase is malformed or the settings fetch fails, the operation fails and
\* no controller, not even one with a partial pool, exists.
C11_RecoverAllOrNothing ==
    last.op = "recover" =>
        IF last.outcome = "ok"
        THEN /\ phase = "ready"
             /\ BadMnemonic \notin Range(last.data)
             /\ wallet_count = Len(last.data)
             /\ \A i \in 1..Len(last.data) : wallets[i] = NewWallet(last.data[i])
        ELSE /\ phase \in {"failed", "panicked"}
             /\ wallet_count = 0

C11_Witness ==
    /\ last.op = "recover"
    /\ last.outcome = "ok"
    /\ wallet_count = MaxWallets
    /\ wallets[1].account # wallets[wallet_count].account

OpStep == nops' = nops + 1

\* C13: is_converted(i) returns Ok(false) when wallet i's account is not
\* present on the backend and Ok(true) when it is; unless the backend call
\* itself fails, the result is Ok, so absence is never an error; and no
\* wallet is changed by the call.
C13_IsConvertedReportsPresence ==
    [][(OpStep /\ last'.op = "is_converted" /\ last'.outcome # "panic")
       => LET a == GetMut(wallets, last'.index).account
          IN  /\ wallets' = wallets
              /\ last'.outcome = "err" => last'.callFailed
              /\ last'.outcome = "ok" => last'.ret = backend[a].present]_vars

C13_Witness ==
    /\ last.op = "is_converted"
    /\ last.outcome = "ok"
    /\ last.ret = FALSE
    /\ ~backend[GetMut(wallets, last.index).account].present

\* C14: vote does not touch the counter cache: no account_state fetch is
\* issued and the wallet's cached (balance, counter) is as before; when the
\* wallet fails to sign, vote returns the wallet error, nothing is sent and
\* no wallet changes.
C14_VoteLeavesCache ==
    [][(OpStep /\ last'.op = "vote" /\ last'.outcome # "panic")
       => /\ last'.fetches = 0
          /\ Cache(GetMut(wallets', last'.index))
                 = Cache(GetMut(wallets, last'.index))
          /\ last'.error = "WalletError"
                 => /\ last'.outcome = "err"
                    /\ last'.sends = 0
                    /\ inflight' = inflight
                    /\ wallets' = wallets
          /\ last'.sends = 0 => last'.error = "WalletError"]_vars

C14_Witness ==
    /\ last.op = "vote"
    /\ last.outcome = "ok"
    /\ last.sends = 1
    /\ backend[last.sent[1].account].present
    /\ backend[last.sent[1].account].counter > last.sent[1].counter


\* votes_batch got past its account_state fetch
BatchFetched ==
    last.op = "votes_batch" /\ last.fetches = 1 /\ last.fetched # NoState

\* C15 as the spec states it: the pair at input position k is signed with
\* counter base + (k - 1).
C15_InputOrderAsClaimed ==
    BatchBuilt =>
        \A j \in 1..Len(last.signed) :
            last.signed[j][2] = last.fetched.counter + (last.signed[j][1] - 1)

\* C15: the pairs of votes_batch are signed in reverse of the given order:
\* with N pairs and base counter c read from the backend, the j-th signature
\* is for input position N + 1 - j and uses counter c + (j - 1); so the pair
\* at input position k is signed with c + (N - k).
C15_ReverseOrderCounters ==
    BatchFetched =>
        LET N == Len(last.data)
        IN  /\ Len(last.signed) <= N
            /\ \A j \in 1..Len(last.signed) :
                   last.signed[j] = <<N + 1 - j, last.fetched.counter + (j - 1)>>

C15_Witness ==
    /\ BatchBuilt
    /\ Len(last.data) = MaxBatch
    /\ last.signed[1] = <<MaxBatch, last.fetched.counter>>
    /\ last.fetched.counter > 0

\* C16: when a pair of votes_batch cannot be signed the batch is aborted:
\* send_fragments_at_once is not invoked and nothing reaches the backend; a
\* batch that is sent holds one payload for every input pair.
C16_BatchAbortsOnSignFailure ==
    [][(OpStep /\ last'.op = "votes_batch")
       => /\ last'.sends = 1
                 => /\ Len(last'.signed) = Len(last'.data)
                    /\ Len(last'.sent) = Len(last'.data)
          /\ (last'.fetched # NoState /\ Len(last'.sent) < Len(last'.data))
                 => /\ last'.outcome = "panic"
                    /\ last'.sends = 0
                    /\ inflight' = inflight
                    /\ backend' = backend]_vars

C16_Witness ==
    /\ BatchFetched
    /\ last.outcome = "panic"
    /\ Len(last.data) = MaxBatch
    /\ Len(last.signed) = MaxBatch
    /\ last.sends = 0

\* C17: vote, votes_batch, refresh_wallet and is_converted called with
\* wallet_index >= wallet_count panic, and do so before any backend call and
\* before any change of state.
C17_IndexOutOfRangePanics ==
    [][(OpStep /\ last'.index >= Len(wallets))
       => /\ last'.outcome = "panic"
          /\ phase' = "panicked"
          /\ last'.fetches = 0
          /\ last'.sends = 0
          /\ ~last'.callFailed
          /\ wallets' = wallets
          /\ inflight' = inflight
          /\ backend' = backend]_vars

C17_Witness ==
    /\ last.op = "is_converted"
    /\ last.outcome = "panic"
    /\ wallet_count > 0
    /\ last.index = wallet_count

\* C18: an operation makes each of its backend calls at most once:
\* votes_batch on an existing wallet fetches the account state exactly once
\* and, when it sends, sends once with all N payloads; a failed fetch or send
\* is returned as the error of the call, with nothing after it and no retry.
C18_BackendCallsOnce ==
    [][OpStep
       => /\ last'.fetches <= 1
          /\ last'.sends <= 1
          /\ (last'.op = "votes_batch" /\ last'.outcome # "panic")
                 => last'.fetches = 1
          /\ (last'.op = "votes_batch" /\ last'.sends = 1)
                 => Len(last'.sent) = Len(last'.data)
          /\ (last'.fetches = 1 /\ last'.fetched = NoState)
                 => /\ last'.outcome = "err"
                    /\ last'.sends = 0
                    /\ wallets' = wallets
                    /\ inflight' = inflight
          /\ (last'.sends = 1 /\ last'.outcome = "ok")
                 => inflight' = Enqueue(inflight, last'.sent)
          /\ (last'.sends = 1 /\ last'.outcome # "ok")
                 => /\ last'.outcome = "err"
                    /\ inflight' = inflight
          /\ last'.callFailed => last'.outcome = "err"]_vars

C18_Witness ==
    /\ BatchBuilt
    /\ last.outcome = "err"
    /\ last.fetches = 1
    /\ Len(last.sent) = MaxBatch

\* C19: once the controller is constructed the pool is stable: wallet_count
\* and the account behind every index never change, and an operation on
\* wallet i leaves every other wallet as it was.
C19_PoolStableAndFramed ==
    [][phase = "ready"
       => /\ Len(wallets') = Len(wallets)
          /\ \A j \in 1..Len(wallets) : wallets'[j].account = wallets[j].account
          /\ OpStep
                 => \A j \in 1..Len(wallets) :
                        j # last'.index + 1 => wallets'[j] = wallets[j]]_vars

C19_Witness ==
    /\ last.op \in {"vote", "votes_batch", "refresh_wallet"}
    /\ last.outcome = "ok"
    /\ wallet_count = MaxWallets
    /\ last.index = 1
    /\ wallets[2] # NewWallet(wallets[2].account)
    /\ wallets[1] = NewWallet(wallets[1].account)

====
